---- MODULE Spec2Model ----
(***************************************************************************)
(* A model of the curve, resampler and deep-image code of libpvr:          *)
(*   Util::Curve<T>            (export/Curve.h)                             *)
(*   Render::makeFixedSample   (src/DeepImage.cpp)                          *)
(*   Render::DeepImage         (src/DeepImage.cpp)                          *)
(*   Render::FrustumMappingIntersection (export/Volumes/VoxelVolume.h)      *)
(* float values are modelled as exact rationals <<num, den>>, den > 0, in  *)
(* lowest terms; a Color is a triple of rationals.                         *)
(***************************************************************************)
EXTENDS Integers, Sequences, FiniteSets, TLC

VARIABLES
  m_samples,     \* Curve<float>::m_samples of a stand-alone FloatCurve
  inserted,      \* number of addSample calls made on that curve
  func,          \* Curve<Color>::m_samples of a stand-alone ColorCurve
  m_width,       \* DeepImage::m_width
  m_height,      \* DeepImage::m_height
  m_numSamples,  \* DeepImage::m_numSamples
  m_pixels,      \* DeepImage::m_pixels, a sequence of ColorCurve sample vectors
  ret,           \* the last call made and what it returned
  threads,       \* what each rendering thread is in the middle of reading
  m_planes       \* FrustumMappingIntersection::m_planes

vars == <<m_samples, inserted, func, m_width, m_height, m_numSamples, m_pixels,
          ret, threads, m_planes>>

curveVars == <<m_samples, inserted>>
gridVars == <<m_width, m_height, m_numSamples, m_pixels>>

----------------------------------------------------------------------------
(* Bounds of the model                                                      *)

\* longest FloatCurve built by addSample
MaxSamples == 3
\* longest source ColorCurve handed to makeFixedSample
MaxSrc == 3
\* largest sample count asked of makeFixedSample / setNumSamples
MaxN == 3
\* number of rendering threads reading at once
NumThreads == 2

----------------------------------------------------------------------------
(* Exact rational arithmetic standing for float arithmetic                 *)

Abs(n) == IF n < 0 THEN -n ELSE n

RECURSIVE Gcd(_, _)
Gcd(a, b) == IF b = 0 THEN a ELSE Gcd(b, a % b)

Norm(n, d) ==
  LET s == IF d < 0 THEN -1 ELSE 1
      g == Gcd(Abs(n), Abs(d))
  IN  <<(s * n) \div g, (s * d) \div g>>

R(n) == <<n, 1>>
Q(n, d) == Norm(n, d)

RAdd(a, b) == Norm(a[1] * b[2] + b[1] * a[2], a[2] * b[2])
RSub(a, b) == Norm(a[1] * b[2] - b[1] * a[2], a[2] * b[2])
RMul(a, b) == Norm(a[1] * b[1], a[2] * b[2])
RDiv(a, b) == Norm(a[1] * b[2], a[2] * b[1])
RLt(a, b) == a[1] * b[2] < b[1] * a[2]
RLe(a, b) == a[1] * b[2] <= b[1] * a[2]
RGt(a, b) == RLt(b, a)
RGe(a, b) == RLe(b, a)

Zero == R(0)
One == R(1)

----------------------------------------------------------------------------
(* Imath functions the code calls                                          *)

\* Imath::lerp(a, b, t) = (1 - t) * a + t * b
ImathLerp(a, b, t) == RAdd(RMul(RSub(One, t), a), RMul(t, b))

\* Imath::lerpfactor(m, a, b): (m - a) / (b - a), and 0 when that quotient
\* would overflow, which for b = a is always
ImathLerpfactor(m, a, b) ==
  LET d == RSub(b, a)
      n == RSub(m, a)
  IN  IF d = Zero THEN Zero ELSE RDiv(n, d)

----------------------------------------------------------------------------
(* Util::Curve<T>                                                           *)

\* A Sample is std::pair<float, T>: <<position, value>>
Sample(t, v) == <<t, v>>
Position(s) == s[1]
Value(s) == s[2]

\* the predicate with >= in the place of >
CheckTGreaterOrEqual(match, test) == RGe(Position(test), match)

\* CheckTGreaterThan(match)(test): test.first > m_match
CheckTGreaterThan(match, test) == RGt(Position(test), match)

\* std::find_if(samples.begin(), samples.end(), CheckTGreaterThan(t)):
\* the index of the first sample whose position is greater than t,
\* Len(samples) + 1 standing for end()
RECURSIVE FindIfFrom(_, _, _)
FindIfFrom(samples, i, t) ==
  IF i > Len(samples) THEN Len(samples) + 1
  ELSE IF CheckTGreaterThan(t, samples[i]) THEN i
  ELSE FindIfFrom(samples, i + 1, t)

FindIf(samples, t) == FindIfFrom(samples, 1, t)

\* std::vector::insert(begin() + (i - 1), s)
InsertBefore(samples, i, s) ==
  SubSeq(samples, 1, i - 1) \o <<s>> \o SubSeq(samples, i, Len(samples))

AddSamplePushBack(samples, t, value) == Append(samples, Sample(t, value))

\* Curve<T>::addSample(t, value), as a function of the sample vector
AddSampleOp(samples, t, value) ==
  LET i == FindIf(samples, t)
  IN  IF i /= Len(samples) + 1
      THEN InsertBefore(samples, i, Sample(t, value))
      ELSE Append(samples, Sample(t, value))

\* Curve<float>::defaultReturnValue(): T(0)
DefaultReturnValue == Zero

CurveLerpSwapped(lower, upper, t) == ImathLerp(Value(upper), Value(lower), t)

\* Curve<float>::lerp(lower, upper, t)
CurveLerp(lower, upper, t) == ImathLerp(Value(lower), Value(upper), t)

\* interpolate without the clamp at end(): the last two samples extrapolated
InterpolateExtrapolating(samples, t) ==
  IF Len(samples) = 0 THEN DefaultReturnValue
  ELSE LET i == FindIf(samples, t)
           k == IF i = Len(samples) + 1 THEN Len(samples) ELSE i
       IN  IF k = 1 THEN Value(samples[1])
           ELSE LET upper == samples[k]
                    lower == samples[k - 1]
                    interpT == ImathLerpfactor(t, Position(lower), Position(upper))
                IN  CurveLerp(lower, upper, interpT)

\* interpolate whose first test reads size() <= 1
InterpolateOneIsNone(samples, t) ==
  IF Len(samples) <= 1 THEN DefaultReturnValue
  ELSE LET i == FindIf(samples, t)
       IN  IF i = Len(samples) + 1 THEN Value(samples[Len(samples)])
           ELSE IF i = 1 THEN Value(samples[1])
           ELSE CurveLerp(samples[i - 1], samples[i],
                          ImathLerpfactor(t, Position(samples[i - 1]),
                                          Position(samples[i])))

\* Curve<float>::interpolate(t)
Interpolate(samples, t) ==
  IF Len(samples) = 0 THEN DefaultReturnValue
  ELSE LET i == FindIf(samples, t)
       IN  IF i = Len(samples) + 1 THEN Value(samples[Len(samples)])
           ELSE IF i = 1 THEN Value(samples[1])
           ELSE LET upper == samples[i]
                    lower == samples[i - 1]
                    interpT == ImathLerpfactor(t, Position(lower), Position(upper))
                IN  CurveLerp(lower, upper, interpT)

----------------------------------------------------------------------------
(* Inputs                                                                   *)

\* sample positions and values given to addSample on the FloatCurve
FloatPositions == {R(0), R(1), R(2)}
FloatValues == {R(0), R(10)}
\* positions asked of interpolate: below, on, between and above the samples
QueryPositions == {R(-1), R(0), Q(1, 2), R(1), Q(3, 2), R(2), R(1000)}

NoCall == [op |-> "none"]

----------------------------------------------------------------------------
(* Stand-alone FloatCurve: construction, addSample, interpolate             *)

\* Curve() and Curve(initialValue)
InitCurve ==
  /\ m_samples \in {<<>>} \cup {AddSampleOp(<<>>, R(0), v) : v \in FloatValues}
  /\ inserted = Len(m_samples)

AddSample(t, value) ==
  /\ Len(m_samples) < MaxSamples
  /\ m_samples' = AddSampleOp(m_samples, t, value)
  /\ inserted' = inserted + 1
  /\ ret' = [op |-> "addSample", t |-> t, value |-> value]
  /\ UNCHANGED <<m_planes, threads, func, gridVars>>

CallInterpolate(t) ==
  /\ ret' = [op |-> "interpolate", t |-> t, val |-> Interpolate(m_samples, t)]
  /\ UNCHANGED <<m_planes, threads, curveVars, func, gridVars>>

NextCurve ==
  \/ \E t \in FloatPositions, v \in FloatValues : AddSample(t, v)
  \/ \E t \in QueryPositions : CallInterpolate(t)

----------------------------------------------------------------------------
(* Color, and the pvr::Math helpers makeFixedSample and DeepImage call      *)

Color(x, y, z) == <<x, y, z>>
\* Color(0.0)
Black == Color(Zero, Zero, Zero)
Gray(n) == Color(R(n), R(n), R(n))

CScale(c, k) == Color(RMul(c[1], k), RMul(c[2], k), RMul(c[3], k))
CAdd(a, b) == Color(RAdd(a[1], b[1]), RAdd(a[2], b[2]), RAdd(a[3], b[3]))

\* Imath::lerp on Color: (1 - t) * a + t * b
ColorLerp(a, b, t) == CAdd(CScale(a, RSub(One, t)), CScale(b, t))

\* Math::fit01(t, min, max) on Color and on float
Fit01Color(t, lo, hi) == ColorLerp(lo, hi, t)
Fit01(t, lo, hi) == ImathLerp(lo, hi, t)

\* Math::avg(color): the mean of the three channels
Avg(c) == RDiv(RAdd(RAdd(c[1], c[2]), c[3]), R(3))

\* Curve<Color>::interpolate(t): interpolate with T = Color
InterpolateColor(samples, t) ==
  IF Len(samples) = 0 THEN Black
  ELSE LET i == FindIf(samples, t)
       IN  IF i = Len(samples) + 1 THEN Value(samples[Len(samples)])
           ELSE IF i = 1 THEN Value(samples[1])
           ELSE LET upper == samples[i]
                    lower == samples[i - 1]
                    interpT == ImathLerpfactor(t, Position(lower), Position(upper))
                IN  ColorLerp(Value(lower), Value(upper), interpT)

\* ColorCurve(numSamples, value): numSamples samples, all holding value,
\* at positions i / (numSamples - 1)
FillCurve(numSamples, value) ==
  [i \in 1..numSamples |->
     Sample(IF numSamples > 1 THEN Q(i - 1, numSamples - 1) ELSE Zero, value)]

----------------------------------------------------------------------------
(* makeFixedSample(curve, numSamples)                                       *)

\* curve->samples(): the curve's sample vector
Samples(curve) == curve

\* samples[p] for a 0-based p; an index outside the vector reads memory that
\* is not a sample of the curve, standing here as the sample `garbage`
At(samples, p, garbage) ==
  IF p \in 0..(Len(samples) - 1) THEN samples[p + 1] ELSE garbage

\* int sign = first.x >= last.x ? 1 : -1
Sign(first, last) == IF RGe(first[1], last[1]) THEN 1 ELSE -1

\* value.x > sign * lastVal.x || value.y > sign * lastVal.y || ...
Exceeds(value, sign, lastVal) ==
  \E c \in 1..3 : RGt(value[c], RMul(R(sign), lastVal[c]))

\* The monotonicity scan, for (i = 1; i < samples.size(); ++i), from 0-based
\* index i on: TRUE when it reaches the early return. Each pass assigns
\* `last = value` and leaves lastVal as it was.
RECURSIVE ScanFails(_, _, _, _)
ScanFails(samples, i, sign, lastVal) ==
  IF i >= Len(samples) THEN FALSE
  ELSE LET value == Value(samples[i + 1])
       IN  IF Exceeds(value, sign, lastVal) THEN TRUE
           ELSE ScanFails(samples, i + 1, sign, lastVal)

\* while (avg(samples[p].second) > avg(value) * sign)
\*   { lastVal = samples[p].second; p++; }
\* gives <<p, lastVal>> after the loop; the loop is followed no further than
\* one past the vector's end
RECURSIVE Advance(_, _, _, _, _)
Advance(samples, p, lastVal, target, garbage) ==
  IF p < Len(samples)
     /\ RGt(Avg(Value(At(samples, p, garbage))), target)
  THEN Advance(samples, p + 1, Value(At(samples, p, garbage)), target, garbage)
  ELSE <<p, lastVal>>

\* the for loop with t = i / numSamples
RECURSIVE ResampleLoopOverN(_, _, _, _, _, _, _, _)
ResampleLoopOverN(samples, numSamples, first, last, sign, i, st, garbage) ==
  IF i >= numSamples \/ st.p > Len(samples) THEN st
  ELSE LET t == Q(i, numSamples)
           value == Fit01Color(t, first, last)
           adv == Advance(samples, st.p, st.lastVal,
                          RMul(Avg(value), R(sign)), garbage)
           p == adv[1]
           lastVal == adv[2]
           cur == At(samples, p, garbage)
           factor == ImathLerpfactor(Avg(value), Avg(lastVal), Avg(Value(cur)))
           interp == Fit01Color(factor, lastVal, Value(cur))
           position == Fit01(factor, Position(At(samples, p - 1, garbage)),
                             Position(cur))
       IN  ResampleLoopOverN(samples, numSamples, first, last, sign, i + 1,
                        [result |-> AddSampleOp(st.result, position, interp),
                         p |-> p, lastVal |-> lastVal,
                         ps |-> Append(st.ps, p)],
                        garbage)

\* One pass of for (i = 1; i < numSamples; ++i), and the passes after it.
\* st = [result, p, lastVal, ps]: the result curve so far, the loop-carried
\* p and lastVal, and in ps the value of p each pass read its samples with.
\* (Advance never leaves p above Len(samples), so the test on st.p changes
\* nothing; it has TLC evaluate st before the next pass.)
RECURSIVE ResampleLoop(_, _, _, _, _, _, _, _)
ResampleLoop(samples, numSamples, first, last, sign, i, st, garbage) ==
  IF i >= numSamples \/ st.p > Len(samples) THEN st
  ELSE LET t == Q(i, numSamples - 1)
           value == Fit01Color(t, first, last)
           adv == Advance(samples, st.p, st.lastVal,
                          RMul(Avg(value), R(sign)), garbage)
           p == adv[1]
           lastVal == adv[2]
           cur == At(samples, p, garbage)
           factor == ImathLerpfactor(Avg(value), Avg(lastVal), Avg(Value(cur)))
           interp == Fit01Color(factor, lastVal, Value(cur))
           position == Fit01(factor, Position(At(samples, p - 1, garbage)),
                             Position(cur))
       IN  ResampleLoop(samples, numSamples, first, last, sign, i + 1,
                        [result |-> AddSampleOp(st.result, position, interp),
                         p |-> p, lastVal |-> lastVal,
                         ps |-> Append(st.ps, p)],
                        garbage)

\* the monotonic branch without its first result->addSample
MonotonicNoFirst(samples, numSamples, garbage) ==
  LET first == Value(samples[1])
      last == Value(samples[Len(samples)])
  IN  ResampleLoop(samples, numSamples, first, last, Sign(first, last), 1,
                   [result |-> <<>>, p |-> 0, lastVal |-> Value(samples[1]),
                    ps |-> <<>>],
                   garbage)

\* The monotonic branch: the state after its loop
Monotonic(samples, numSamples, garbage) ==
  LET first == Value(samples[1])
      last == Value(samples[Len(samples)])
      sign == Sign(first, last)
  IN  ResampleLoop(samples, numSamples, first, last, sign, 1,
                   [result |-> AddSampleOp(<<>>, Position(samples[1]),
                                           Value(samples[1])),
                    p |-> 0, lastVal |-> Value(samples[1]), ps |-> <<>>],
                   garbage)

\* Whether the call takes the early return of the monotonicity scan
TakesFallback(samples) ==
  /\ Len(samples) >= 2
  /\ ScanFails(samples, 1, Sign(Value(samples[1]), Value(samples[Len(samples)])),
               Value(samples[1]))

\* makeFixedSample whose one-sample test fills with Color(0.0)
MakeFixedSampleOneAsNone(curve, numSamples, garbage) ==
  LET samples == Samples(curve)
  IN  IF Len(samples) <= 1 THEN FillCurve(numSamples, Black)
      ELSE IF TakesFallback(samples) THEN FillCurve(numSamples, Black)
      ELSE Monotonic(samples, numSamples, garbage).result

RECURSIVE MakeFixedSample(_, _, _)
MakeFixedSample(curve, numSamples, garbage) ==
  LET samples == Samples(curve)
  IN  IF Len(samples) = 0 THEN FillCurve(numSamples, Black)
      ELSE IF Len(samples) = 1 THEN FillCurve(numSamples, Value(samples[1]))
      ELSE IF TakesFallback(samples)
           THEN MakeFixedSample(AddSampleOp(<<>>, Zero, Black), numSamples, garbage)
           ELSE Monotonic(samples, numSamples, garbage).result

----------------------------------------------------------------------------
(* Stand-alone ColorCurve handed to makeFixedSample                         *)

ColorPositions == {R(0), R(2)}
ColorValues ==
  {Gray(2), Gray(1), Color(R(0), R(2), R(0)), Gray(-2)}

\* What a read outside the sample vector may find
Garbage == {Sample(R(-5), Gray(9)), Sample(R(7), Gray(-9))}

\* Curve()
InitFunc == func = <<>>

AddColorSample(t, value) ==
  /\ Len(func) < MaxSrc
  /\ func' = AddSampleOp(func, t, value)
  /\ ret' = [op |-> "addSample", t |-> t, value |-> value]
  /\ UNCHANGED <<m_planes, threads, curveVars, gridVars>>

\* the values of p with which the passes of the monotonic branch's for loop
\* read samples[p] and samples[p-1]; none when the call returns before it
ScanPointers(curve, numSamples, garbage) ==
  LET samples == Samples(curve)
  IN  IF Len(samples) <= 1 \/ TakesFallback(samples) THEN <<>>
      ELSE Monotonic(samples, numSamples, garbage).ps

\* makeFixedSample(func, numSamples); warned: whether it logged
\* "Non-monotonic curve in DeepImage::makeFixedSample()"; ps: its p per pass
CallMakeFixedSample(numSamples, garbage) ==
  /\ ret' = [op |-> "makeFixedSample", numSamples |-> numSamples,
             out |-> MakeFixedSample(func, numSamples, garbage),
             warned |-> TakesFallback(Samples(func)),
             ps |-> ScanPointers(func, numSamples, garbage)]
  /\ UNCHANGED <<m_planes, threads, curveVars, func, gridVars>>

NextResample ==
  \/ \E t \in ColorPositions, v \in ColorValues : AddColorSample(t, v)
  \/ \E n \in 0..MaxN, g \in Garbage : CallMakeFixedSample(n, g)

----------------------------------------------------------------------------
(* DeepImage                                                                *)

\* m_numSamples(32)
DefaultNumSamples == 32

\* pixel(x, y): m_pixels[x + y * m_width], as an index from 1
PixelIndex(width, x, y) == x + y * width + 1

\* m_pixels.resize(width * height) without the swapClear before it
SetSizeOpNoClear(pixels, width, height) ==
  [i \in 1..(width * height) |-> IF i <= Len(pixels) THEN pixels[i] ELSE <<>>]

\* swapClear(m_pixels); m_pixels.resize(width * height)
SetSizeOp(pixels, width, height) == [i \in 1..(width * height) |-> <<>>]

\* pixel(x, y) = curve
StorePixel(pixels, width, x, y, curve) ==
  [pixels EXCEPT ![PixelIndex(width, x, y)] = curve]

\* DeepImage(): m_numSamples(32), setSize(2, 2)
InitGrid ==
  /\ m_numSamples = DefaultNumSamples
  /\ m_width = 2
  /\ m_height = 2
  /\ m_pixels = SetSizeOp(<<>>, 2, 2)

SetSize(width, height) ==
  /\ m_width' = width
  /\ m_height' = height
  /\ m_pixels' = SetSizeOp(m_pixels, width, height)
  /\ ret' = [op |-> "setSize", width |-> width, height |-> height]
  /\ UNCHANGED <<m_planes, threads, curveVars, func, m_numSamples>>

SetNumSamples(numSamples) ==
  /\ m_numSamples' = numSamples
  /\ ret' = [op |-> "setNumSamples", numSamples |-> numSamples]
  /\ UNCHANGED <<m_planes, threads, curveVars, func, m_width, m_height, m_pixels>>

\* widths and heights given to setSize, sample counts given to setNumSamples
GridSizes == {0, 1, 2}
SampleCounts == {0, 2}
\* curves and colours given to setPixel: a curve that passes the
\* monotonicity scan and one that does not
PixelCurves ==
  {<<Sample(R(0), Gray(2)), Sample(R(1), Gray(0))>>,
   <<Sample(R(0), Gray(0)), Sample(R(1), Gray(2))>>}
PixelColors == {Gray(1), Color(R(2), R(0), R(1))}

\* Curve(initialValue): addSample(0.0f, initialValue) on an empty curve
CurveOf(initialValue) == AddSampleOp(<<>>, Zero, initialValue)

\* makeFixedSample tabulated over the curves and sample counts the image
\* hands it
FixedSampleOf ==
  [curve \in PixelCurves \cup {CurveOf(v) : v \in PixelColors},
   numSamples \in SampleCounts \cup {DefaultNumSamples},
   garbage \in Garbage |-> MakeFixedSample(curve, numSamples, garbage)]

\* setPixel(x, y, func) storing *func as it is given
SetPixelUnsampled(x, y, curve, garbage) ==
  /\ x < m_width
  /\ y < m_height
  /\ m_pixels' = StorePixel(m_pixels, m_width, x, y, curve)
  /\ ret' = [op |-> "setPixel", x |-> x, y |-> y, curve |-> curve]
  /\ UNCHANGED <<m_planes, threads, curveVars, func, m_width, m_height, m_numSamples>>

\* setPixel(x, y, func): the asserts are the call's precondition
SetPixel(x, y, curve, garbage) ==
  /\ x < m_width
  /\ y < m_height
  /\ m_pixels' = StorePixel(m_pixels, m_width, x, y,
                            FixedSampleOf[curve, m_numSamples, garbage])
  /\ ret' = [op |-> "setPixel", x |-> x, y |-> y, curve |-> curve]
  /\ UNCHANGED <<m_planes, threads, curveVars, func, m_width, m_height, m_numSamples>>

\* setPixel(x, y, value): makeFixedSample(new ColorCurve(value), m_numSamples)
SetPixelColor(x, y, value, garbage) ==
  /\ x < m_width
  /\ y < m_height
  /\ m_pixels' = StorePixel(m_pixels, m_width, x, y,
                            FixedSampleOf[CurveOf(value), m_numSamples, garbage])
  /\ ret' = [op |-> "setPixelColor", x |-> x, y |-> y, value |-> value]
  /\ UNCHANGED <<m_planes, threads, curveVars, func, m_width, m_height, m_numSamples>>

\* std::floor and std::ceil of a float, as integers
Floor(q) == q[1] \div q[2]
Ceil(q) == -((-q[1]) \div q[2])

\* size_t x = v; x = Imath::clamp(x, zero, hi), for a float v holding an
\* integer. Converting a negative float to size_t is undefined: builds either
\* wrap it to a huge value, which clamps to hi, or saturate it to 0.
ToIndex(v, hi, wraps) ==
  IF v < 0 THEN (IF wraps THEN hi ELSE 0)
  ELSE IF v > hi THEN hi ELSE v

\* Util::lerp2D(tx, ty, x0y0, x1y0, x0y1, x1y1): linear in x, then in y
Lerp2D(tx, ty, x0y0, x1y0, x0y1, x1y1) ==
  ColorLerp(ColorLerp(x0y0, x1y0, tx), ColorLerp(x0y1, x1y1, tx), ty)

\* lerp with its weights taken from xMax and yMax
DeepImageLerpMaxWeights(pixels, width, height, rsX, rsY, z, wraps) ==
  LET xMin == ToIndex(Floor(rsX), width - 1, wraps)
      xMax == ToIndex(Ceil(rsX), width - 1, wraps)
      yMin == ToIndex(Floor(rsY), height - 1, wraps)
      yMax == ToIndex(Ceil(rsY), height - 1, wraps)
  IN  Lerp2D(RSub(rsX, R(xMax)), RSub(rsY, R(yMax)),
             InterpolateColor(pixels[PixelIndex(width, xMin, yMin)], z),
             InterpolateColor(pixels[PixelIndex(width, xMax, yMin)], z),
             InterpolateColor(pixels[PixelIndex(width, xMin, yMax)], z),
             InterpolateColor(pixels[PixelIndex(width, xMax, yMax)], z))

\* DeepImage::lerp(rsX, rsY, z), as a function of the image
DeepImageLerp(pixels, width, height, rsX, rsY, z, wraps) ==
  LET xMin == ToIndex(Floor(rsX), width - 1, wraps)
      xMax == ToIndex(Ceil(rsX), width - 1, wraps)
      yMin == ToIndex(Floor(rsY), height - 1, wraps)
      yMax == ToIndex(Ceil(rsY), height - 1, wraps)
  IN  Lerp2D(RSub(rsX, R(xMin)), RSub(rsY, R(yMin)),
             InterpolateColor(pixels[PixelIndex(width, xMin, yMin)], z),
             InterpolateColor(pixels[PixelIndex(width, xMax, yMin)], z),
             InterpolateColor(pixels[PixelIndex(width, xMin, yMax)], z),
             InterpolateColor(pixels[PixelIndex(width, xMax, yMax)], z))

\* xMin, xMax, yMin, yMax of lerp, after the four Imath::clamp calls
LerpIndices(width, height, rsX, rsY, wraps) ==
  [xMin |-> ToIndex(Floor(rsX), width - 1, wraps),
   xMax |-> ToIndex(Ceil(rsX), width - 1, wraps),
   yMin |-> ToIndex(Floor(rsY), height - 1, wraps),
   yMax |-> ToIndex(Ceil(rsY), height - 1, wraps)]

\* lerp(rsX, rsY, z) on an image that has pixels; at: the pixels it read
CallLerp(rsX, rsY, z, wraps) ==
  /\ m_width >= 1
  /\ m_height >= 1
  /\ ret' = [op |-> "lerp", rsX |-> rsX, rsY |-> rsY, z |-> z,
             at |-> LerpIndices(m_width, m_height, rsX, rsY, wraps),
             val |-> DeepImageLerp(m_pixels, m_width, m_height,
                                   rsX, rsY, z, wraps)]
  /\ UNCHANGED <<m_planes, threads, curveVars, func, gridVars>>

\* raster coordinates and depths asked of lerp
LookupCoords == {R(0), Q(1, 2), R(1)}
LookupDepths == {Q(1, 3), R(5)}

\* the outcomes of the float to size_t conversions of a call: one, unless a
\* coordinate is negative
WrapChoices(rsX, rsY) ==
  IF Floor(rsX) < 0 \/ Floor(rsY) < 0 THEN BOOLEAN ELSE {FALSE}

\* pixelFunction(x, y) reading m_pixels[x + y], the row stride left out
PixelFunctionOpNoStride(pixels, width, x, y) == pixels[x + y + 1]

\* new Util::ColorCurve(m_pixels[x + y * m_width]): the copy constructor
\* gives the new curve a sample vector of its own, equal to the pixel's
PixelFunctionOp(pixels, width, x, y) == pixels[PixelIndex(width, x, y)]

\* pixelFunction(x, y); the caller holds the returned curve in func
CallPixelFunction(x, y) ==
  /\ x < m_width
  /\ y < m_height
  /\ func' = PixelFunctionOp(m_pixels, m_width, x, y)
  /\ ret' = [op |-> "pixelFunction", x |-> x, y |-> y]
  /\ UNCHANGED <<m_planes, threads, curveVars, gridVars>>

\* values the caller adds to a curve it got from pixelFunction
CopyValues == {Gray(2)}

\* the setters of an image, pixelFunction, and addSample on what it returned
NextCopy ==
  \/ \E w \in GridSizes, h \in GridSizes : SetSize(w, h)
  \/ \E n \in SampleCounts : SetNumSamples(n)
  \/ \E x \in 0..1, y \in 0..1, v \in {Gray(1)}, g \in Garbage :
       SetPixelColor(x, y, v, g)
  \/ \E x \in 0..1, y \in 0..1 : CallPixelFunction(x, y)
  \/ \E t \in ColorPositions, v \in CopyValues : AddColorSample(t, v)

----------------------------------------------------------------------------
(* FrustumMappingIntersection::intersect. VoxelVolume.h declares it; its    *)
(* body is written here from the description of the frustum variant: six    *)
(* half-spaces dot(normal, p) <= distance clip a running [tMin, tMax].      *)

V3(x, y, z) == <<R(x), R(y), R(z)>>
Dot(a, b) == RAdd(RAdd(RMul(a[1], b[1]), RMul(a[2], b[2])), RMul(a[3], b[3]))

\* Plane: a normal and the signed distance from the origin
Plane(normal, distance) == [normal |-> normal, distance |-> R(distance)]

\* the running interval before any plane, all of the ray's line: the
\* infinities, written -1/0 and 1/0 so that the comparisons order them
\* below and above every float
NegInf == <<-1, 0>>
PosInf == <<1, 0>>

\* tMin > tMax
IsEmpty(tMin, tMax) ==
  tMin /= NegInf /\ tMax /= PosInf /\ RGt(tMin, tMax)

\* std::max(tMin, t) and std::min(tMax, t)
RaiseMin(tMin, t) == IF tMin = NegInf \/ RGt(t, tMin) THEN t ELSE tMin
LowerMax(tMax, t) == IF tMax = PosInf \/ RLt(t, tMax) THEN t ELSE tMax

\* the clipping step with the two sides exchanged
ClipPlaneSwapped(plane, origin, direction, iv) ==
  LET nd == Dot(plane.normal, direction)
      t == RDiv(RSub(plane.distance, Dot(plane.normal, origin)), nd)
  IN  IF RGt(nd, Zero) THEN [iv EXCEPT !.tMin = RaiseMin(@, t)]
      ELSE IF RLt(nd, Zero) THEN [iv EXCEPT !.tMax = LowerMax(@, t)]
      ELSE iv

\* One plane narrows the running interval: the ray crosses it at
\* t = (distance - dot(normal, origin)) / dot(normal, direction); the plane
\* bounds the ray from above when dot(normal, direction) > 0 and from below
\* when it is < 0. A plane the ray runs parallel to is not crossed and
\* narrows nothing.
ClipPlane(plane, origin, direction, iv) ==
  LET nd == Dot(plane.normal, direction)
      t == RDiv(RSub(plane.distance, Dot(plane.normal, origin)), nd)
  IN  IF RGt(nd, Zero) THEN [iv EXCEPT !.tMax = LowerMax(@, t)]
      ELSE IF RLt(nd, Zero) THEN [iv EXCEPT !.tMin = RaiseMin(@, t)]
      ELSE iv

\* the planes from the i-th on, in their order Left, Right, Bottom, Top,
\* Near, Far
RECURSIVE ClipFrom(_, _, _, _, _)
ClipFrom(planes, i, origin, direction, iv) ==
  IF i > Len(planes) THEN iv
  ELSE ClipFrom(planes, i + 1, origin, direction,
                ClipPlane(planes[i], origin, direction, iv))

\* intersect(wsRay, time): no interval, or the one interval left
Intersect(planes, origin, direction) ==
  LET iv == ClipFrom(planes, 1, origin, direction,
                     [tMin |-> NegInf, tMax |-> PosInf])
  IN  IF IsEmpty(iv.tMin, iv.tMax) THEN <<>> ELSE <<iv>>

\* the frustum with planes x = +-1, y = +-1, near z = 0, far z = 10
SymmetricFrustum ==
  <<Plane(V3(-1, 0, 0), 1), Plane(V3(1, 0, 0), 1),
    Plane(V3(0, -1, 0), 1), Plane(V3(0, 1, 0), 1),
    Plane(V3(0, 0, -1), 0), Plane(V3(0, 0, 1), 10)>>

\* frusta given to the constructor: the symmetric one, one with slanted
\* sides that widens with z, and one whose near plane lies behind its far
\* plane
Frusta ==
  {SymmetricFrustum,
   <<Plane(V3(-2, 0, -1), 2), Plane(V3(2, 0, -1), 2),
     Plane(V3(0, -2, -1), 2), Plane(V3(0, 2, -1), 2),
     Plane(V3(0, 0, -1), -1), Plane(V3(0, 0, 1), 5)>>,
   <<Plane(V3(-1, 0, 0), 1), Plane(V3(1, 0, 0), 1),
     Plane(V3(0, -1, 0), 1), Plane(V3(0, 1, 0), 1),
     Plane(V3(0, 0, -1), -4), Plane(V3(0, 0, 1), 2)>>}

\* ray origins and directions
RayOrigins ==
  {V3(0, 0, 0), V3(0, 0, -5), V3(0, 0, 20), V3(3, 0, 5), V3(0, 0, 3)}
RayDirections ==
  {V3(0, 0, 1), V3(0, 0, -1), V3(1, 0, 0), V3(1, 0, 1), V3(0, 1, 2),
   V3(-1, 0, 2), V3(0, 0, 2)}

\* FrustumMappingIntersection(mapping)
InitFrustum == m_planes \in Frusta

\* intersect(wsRay, time) with wsRay = (origin, direction)
CallIntersect(origin, direction) ==
  /\ ret' = [op |-> "intersect", origin |-> origin, direction |-> direction,
             out |-> Intersect(m_planes, origin, direction)]
  /\ UNCHANGED <<m_planes, threads, curveVars, func, gridVars>>

NextFrustum ==
  \E o \in RayOrigins, d \in RayDirections : CallIntersect(o, d)

----------------------------------------------------------------------------
(* Rendering threads calling the const methods interpolate, lerp and        *)
(* pixelFunction. A call is a Begin step, the steps in which its code reads *)
(* the curve or the image, and a Return step; the steps of different        *)
(* threads interleave.                                                      *)

Threads == 1..NumThreads

Idle == [pc |-> "idle"]

\* thread r moves on to st
Goto(r, st) == threads' = [threads EXCEPT ![r] = st]

\* the four arguments of lerp2D, in the order written: the pixel each reads
Neighbour(xMin, xMax, yMin, yMax, k) ==
  CASE k = 1 -> <<xMin, yMin>>
    [] k = 2 -> <<xMax, yMin>>
    [] k = 3 -> <<xMin, yMax>>
    [] k = 4 -> <<xMax, yMax>>

\* positions, raster coordinates, depths and pixels the threads ask for
ReadPositions == {Q(1, 2)}
ReadLookups == {<<Q(1, 2), Q(1, 2), Q(1, 3)>>}
ReadPixels == {<<1, 0>>}

\* interpolate(t) is called
BeginInterpolate(r, t) ==
  /\ threads[r] = Idle
  /\ Goto(r, [pc |-> "interpolate", t |-> t])
  /\ UNCHANGED <<m_planes, curveVars, func, gridVars, ret>>

\* interpolate: if (m_samples.size() == 0) return defaultReturnValue(),
\* else find_if over m_samples and the returns after it
InterpolateRead(r) ==
  /\ threads[r].pc = "interpolate"
  /\ Goto(r, [pc |-> "return", op |-> "interpolate", t |-> threads[r].t,
              val |-> Interpolate(m_samples, threads[r].t)])
  /\ UNCHANGED <<m_planes, curveVars, func, gridVars, ret>>

\* lerp(rsX, rsY, z) is called, with rsX, rsY >= 0
BeginLerp(r, rsX, rsY, z) ==
  /\ threads[r] = Idle
  /\ Goto(r, [pc |-> "lerp", rsX |-> rsX, rsY |-> rsY, z |-> z])
  /\ UNCHANGED <<m_planes, curveVars, func, gridVars, ret>>

\* lerp: xMin, xMax, yMin, yMax from std::floor, std::ceil and Imath::clamp,
\* reading m_width and m_height
LerpClamp(r) ==
  /\ threads[r].pc = "lerp"
  /\ m_width >= 1
  /\ m_height >= 1
  /\ Goto(r, [threads[r] EXCEPT !.pc = "lerpArgs"] @@
             [xMin |-> ToIndex(Floor(threads[r].rsX), m_width - 1, FALSE),
              xMax |-> ToIndex(Ceil(threads[r].rsX), m_width - 1, FALSE),
              yMin |-> ToIndex(Floor(threads[r].rsY), m_height - 1, FALSE),
              yMax |-> ToIndex(Ceil(threads[r].rsY), m_height - 1, FALSE),
              acc |-> <<>>])
  /\ UNCHANGED <<m_planes, curveVars, func, gridVars, ret>>

\* pixel(x, y).interpolate(z) that empties the pixel it has read
LerpReadPixelMoving(r, k) ==
  LET st == threads[r]
      xy == Neighbour(st.xMin, st.xMax, st.yMin, st.yMax, k)
      i == PixelIndex(m_width, xy[1], xy[2])
  IN  /\ st.pc = "lerpArgs"
      /\ k \notin DOMAIN st.acc
      /\ Goto(r, [st EXCEPT !.acc = (k :> InterpolateColor(m_pixels[i], st.z)) @@ @])
      /\ m_pixels' = [m_pixels EXCEPT ![i] = <<>>]
      /\ UNCHANGED <<m_planes, curveVars, func, m_width, m_height, m_numSamples, ret>>

\* lerp: one of the arguments pixel(x, y).interpolate(z) of lerp2D is
\* evaluated; the order of the four is the compiler's choice
LerpReadPixel(r, k) ==
  LET st == threads[r]
      xy == Neighbour(st.xMin, st.xMax, st.yMin, st.yMax, k)
      i == PixelIndex(m_width, xy[1], xy[2])
  IN  /\ st.pc = "lerpArgs"
      /\ k \notin DOMAIN st.acc
      /\ Goto(r, [st EXCEPT !.acc = (k :> InterpolateColor(m_pixels[i], st.z)) @@ @])
      /\ UNCHANGED <<m_planes, curveVars, func, gridVars, ret>>

\* lerp: return Util::lerp2D(...) of the four values
LerpBlend(r) ==
  LET st == threads[r]
  IN  /\ st.pc = "lerpArgs"
      /\ DOMAIN st.acc = 1..4
      /\ Goto(r, [pc |-> "return", op |-> "lerp", rsX |-> st.rsX,
                  rsY |-> st.rsY, z |-> st.z,
                  val |-> Lerp2D(RSub(st.rsX, R(st.xMin)),
                                 RSub(st.rsY, R(st.yMin)),
                                 st.acc[1], st.acc[2], st.acc[3], st.acc[4])])
      /\ UNCHANGED <<m_planes, curveVars, func, gridVars, ret>>

\* pixelFunction(x, y) is called
BeginPixelFunction(r, x, y) ==
  /\ threads[r] = Idle
  /\ x < m_width
  /\ y < m_height
  /\ Goto(r, [pc |-> "pixelFunction", x |-> x, y |-> y])
  /\ UNCHANGED <<m_planes, curveVars, func, gridVars, ret>>

\* pixelFunction: the copy of m_pixels[x + y * m_width]
PixelFunctionRead(r) ==
  LET st == threads[r]
  IN  /\ st.pc = "pixelFunction"
      /\ Goto(r, [pc |-> "return", op |-> "pixelFunction", x |-> st.x,
                  y |-> st.y,
                  val |-> PixelFunctionOp(m_pixels, m_width, st.x, st.y)])
      /\ UNCHANGED <<m_planes, curveVars, func, gridVars, ret>>

\* the call of thread r returns
Return(r) ==
  /\ threads[r].pc = "return"
  /\ ret' = [threads[r] EXCEPT !.pc = "returned"] @@ [by |-> r]
  /\ Goto(r, Idle)
  /\ UNCHANGED <<m_planes, curveVars, func, gridVars>>

NextRead ==
  \E r \in Threads :
    \/ \E t \in ReadPositions : BeginInterpolate(r, t)
    \/ InterpolateRead(r)
    \/ \E a \in ReadLookups : BeginLerp(r, a[1], a[2], a[3])
    \/ LerpClamp(r)
    \/ \E k \in 1..4 : LerpReadPixel(r, k)
    \/ LerpBlend(r)
    \/ \E a \in ReadPixels : BeginPixelFunction(r, a[1], a[2])
    \/ PixelFunctionRead(r)
    \/ Return(r)

\* a 2 x 2 image as construction leaves it: setNumSamples(2), then setPixel
\* of a colour at (0, 0) and (0, 1) and of a falling curve at (1, 0)
BuiltPixels ==
  LET g == CHOOSE s \in Garbage : TRUE
      falling == CHOOSE c \in PixelCurves : ~TakesFallback(c)
      p0 == SetSizeOp(<<>>, 2, 2)
      p1 == StorePixel(p0, 2, 0, 0, FixedSampleOf[CurveOf(Gray(1)), 2, g])
      p2 == StorePixel(p1, 2, 1, 0, FixedSampleOf[falling, 2, g])
  IN  StorePixel(p2, 2, 0, 1,
                 FixedSampleOf[CurveOf(Color(R(2), R(0), R(1))), 2, g])

\* a FloatCurve as construction leaves it, after two addSample calls
BuiltCurves ==
  {AddSampleOp(AddSampleOp(<<>>, R(1), R(10)), R(0), R(0))}

\* the state once construction has finished and the threads start reading
InitBuilt ==
  /\ m_samples \in BuiltCurves
  /\ inserted = Len(m_samples)
  /\ InitFunc
  /\ m_width = 2
  /\ m_height = 2
  /\ m_numSamples = 2
  /\ m_pixels = BuiltPixels
  /\ ret = NoCall
  /\ threads = [r \in Threads |-> Idle]
  /\ m_planes = SymmetricFrustum

\* raster coordinates inside, between, below and beyond the pixels
ClampCoords == {Q(-3, 2), R(-1), Q(-1, 2), R(0), Q(1, 2), R(1), Q(3, 2), R(5)}

\* lerp asked at coordinates of every kind, on images of every size
NextClamp ==
  \/ \E w \in GridSizes, h \in GridSizes : SetSize(w, h)
  \/ \E rsX \in ClampCoords, rsY \in ClampCoords, z \in {Zero} :
        \E wraps \in WrapChoices(rsX, rsY) : CallLerp(rsX, rsY, z, wraps)

NextGrid ==
  \/ \E w \in GridSizes, h \in GridSizes : SetSize(w, h)
  \/ \E n \in SampleCounts : SetNumSamples(n)
  \/ \E x \in GridSizes, y \in GridSizes, c \in PixelCurves, g \in Garbage :
        SetPixel(x, y, c, g)
  \/ \E x \in GridSizes, y \in GridSizes, v \in {Gray(1)}, g \in Garbage :
        SetPixelColor(x, y, v, g)

NextLookup ==
  \/ \E w \in GridSizes, h \in GridSizes : SetSize(w, h)
  \/ \E x \in GridSizes, y \in GridSizes, v \in PixelColors, g \in Garbage :
        SetPixelColor(x, y, v, g)
  \/ \E rsX \in LookupCoords, rsY \in LookupCoords, z \in LookupDepths :
        \E wraps \in WrapChoices(rsX, rsY) : CallLerp(rsX, rsY, z, wraps)

----------------------------------------------------------------------------
(* Specifications                                                           *)

\* a default-constructed FloatCurve, ColorCurve and DeepImage
Init ==
  /\ m_samples = <<>>
  /\ inserted = 0
  /\ InitFunc
  /\ InitGrid
  /\ ret = NoCall
  /\ threads = [r \in Threads |-> Idle]
  /\ m_planes = SymmetricFrustum

\* the same with the FloatCurve built by either of its constructors
InitAnyCurve ==
  /\ InitCurve
  /\ InitFunc
  /\ InitGrid
  /\ ret = NoCall
  /\ threads = [r \in Threads |-> Idle]
  /\ m_planes = SymmetricFrustum

\* a FloatCurve under addSample and interpolate
SpecCurve == InitAnyCurve /\ [][NextCurve]_vars
\* a ColorCurve under addSample, handed to makeFixedSample
SpecResample == Init /\ [][NextResample]_vars
\* a DeepImage under setSize, setNumSamples and setPixel
SpecGrid == Init /\ [][NextGrid]_vars
\* a DeepImage whose pixels are set to constant colours, under lerp
SpecLookup == Init /\ [][NextLookup]_vars

SpecCopy == Init /\ [][NextCopy]_vars

\* rendering threads reading a finished curve and image
SpecRead == InitBuilt /\ [][NextRead]_vars

\* a curve and an image as constructed, beside a frustum of any kind
InitAnyFrustum ==
  /\ m_samples = <<>>
  /\ inserted = 0
  /\ InitFunc
  /\ InitGrid
  /\ ret = NoCall
  /\ threads = [r \in Threads |-> Idle]
  /\ InitFrustum

\* lerp at coordinates in and out of the image
SpecClamp == Init /\ [][NextClamp]_vars

\* rays intersected with a frustum
SpecFrustum == InitAnyFrustum /\ [][NextFrustum]_vars

----------------------------------------------------------------------------
(* Properties of Curve<T>, under SpecCurve                                  *)

Sorted(samples) ==
  \A i \in 1..(Len(samples) - 1) :
    RLe(Position(samples[i]), Position(samples[i + 1]))

StrictlyIncreasing(samples) ==
  \A i \in 1..(Len(samples) - 1) :
    RLt(Position(samples[i]), Position(samples[i + 1]))

\* C1: whichever constructor built the curve and whatever positions the
\* addSample calls were given since, the stored samples are in non-decreasing
\* order of position, and there are as many of them as addSample calls made.
C1_SortedAndComplete ==
  /\ Sorted(m_samples)
  /\ Len(m_samples) = inserted

\* a third sample was just inserted at a position below the last one's, into
\* a curve that holds two samples at one position
C1_Witness ==
  /\ ret.op = "addSample"
  /\ Len(m_samples) = MaxSamples
  /\ RLt(ret.t, Position(m_samples[Len(m_samples)]))
  /\ \E i \in 1..(Len(m_samples) - 1) :
       Position(m_samples[i]) = Position(m_samples[i + 1])

\* C2: on a curve of two or more samples at strictly increasing positions,
\* interpolate(t) gives the first sample's value for every t at or below the
\* first position and the last sample's value for every t at or above the
\* last position.
C2_ClampAtBoundaries ==
  (/\ ret.op = "interpolate"
   /\ Len(m_samples) >= 2
   /\ StrictlyIncreasing(m_samples))
  => /\ RLe(ret.t, Position(m_samples[1])) => ret.val = Value(m_samples[1])
     /\ RGe(ret.t, Position(m_samples[Len(m_samples)]))
          => ret.val = Value(m_samples[Len(m_samples)])

\* interpolate was asked beyond the last position of a rising curve
C2_Witness ==
  /\ ret.op = "interpolate"
  /\ Len(m_samples) >= 2
  /\ StrictlyIncreasing(m_samples)
  /\ RGt(ret.t, Position(m_samples[Len(m_samples)]))
  /\ Value(m_samples[Len(m_samples)]) /= Value(m_samples[Len(m_samples) - 1])

\* the first sample positioned strictly after t
UpperIndex(samples, t) ==
  CHOOSE u \in 1..Len(samples) :
    /\ RGt(Position(samples[u]), t)
    /\ \A j \in 1..(u - 1) : ~RGt(Position(samples[j]), t)

\* lower + f * (upper - lower), f = (t - lower.position) /
\* (upper.position - lower.position)
BlendAt(lower, upper, t) ==
  LET f == RDiv(RSub(t, Position(lower)),
                RSub(Position(upper), Position(lower)))
  IN  RAdd(Value(lower), RMul(f, RSub(Value(upper), Value(lower))))

ExampleCurve == <<Sample(R(0), R(0)), Sample(R(1), R(10))>>

\* C3: on a curve of two or more samples, for first.position <= t <
\* last.position, interpolate(t) is the linear blend of the first sample
\* positioned strictly after t and the sample stored just before it, at
\* fraction (t - lower.position) / (upper.position - lower.position); on the
\* curve {(0, 0), (1, 10)} it gives 5 at 1/2, 0 at -1 and 10 at 2.
C3_InterpolateBetween ==
  /\ (/\ ret.op = "interpolate"
      /\ Len(m_samples) >= 2
      /\ RLe(Position(m_samples[1]), ret.t)
      /\ RLt(ret.t, Position(m_samples[Len(m_samples)])))
     => LET u == UpperIndex(m_samples, ret.t)
        IN  ret.val = BlendAt(m_samples[u - 1], m_samples[u], ret.t)
  /\ (ret.op = "interpolate" /\ m_samples = ExampleCurve)
     => /\ ret.t = Q(1, 2) => ret.val = R(5)
        /\ ret.t = R(-1) => ret.val = R(0)
        /\ ret.t = R(2) => ret.val = R(10)

\* interpolate was asked strictly between two samples of different values
C3_Witness ==
  /\ ret.op = "interpolate"
  /\ Len(m_samples) = MaxSamples
  /\ RLt(Position(m_samples[1]), ret.t)
  /\ RLt(ret.t, Position(m_samples[Len(m_samples)]))
  /\ LET u == UpperIndex(m_samples, ret.t)
     IN  /\ Position(m_samples[u - 1]) /= ret.t
         /\ Value(m_samples[u - 1]) /= Value(m_samples[u])

\* C4: interpolate(t) on a curve without samples gives the default value,
\* zero, and on a curve of one sample gives that sample's value, for every t.
C4_DegenerateCurves ==
  ret.op = "interpolate"
  => /\ Len(m_samples) = 0 => ret.val = Zero
     /\ Len(m_samples) = 1 => ret.val = Value(m_samples[1])

\* interpolate was asked below the position of a curve's only sample, whose
\* value is not the default
C4_Witness ==
  /\ ret.op = "interpolate"
  /\ Len(m_samples) = 1
  /\ RLt(ret.t, Position(m_samples[1]))
  /\ Value(m_samples[1]) /= Zero

----------------------------------------------------------------------------
(* Properties of makeFixedSample, under SpecResample                        *)

AllValues(samples, value) == \A i \in 1..Len(samples) : Value(samples[i]) = value

\* C5: for every numSamples >= 1 and every source curve, makeFixedSample
\* returns a curve of exactly numSamples samples.
C5_OutputSize ==
  (ret.op = "makeFixedSample" /\ ret.numSamples >= 1)
  => Len(ret.out) = ret.numSamples

\* a curve of several samples passed the scan and was resampled in the
\* monotonic branch to the largest count
C5_Witness ==
  /\ ret.op = "makeFixedSample"
  /\ ret.numSamples = MaxN
  /\ Len(func) = MaxSrc
  /\ ~ret.warned
  /\ Value(ret.out[1]) /= Value(ret.out[Len(ret.out)])

\* some sample holds a channel above sign times that channel of the sample
\* stored just before it
ExceedsPreceding(samples) ==
  LET sign == Sign(Value(samples[1]), Value(samples[Len(samples)]))
  IN  \E i \in 2..Len(samples) :
        Exceeds(Value(samples[i]), sign, Value(samples[i - 1]))

\* C6: for a source of two or more samples, makeFixedSample warns and
\* returns numSamples zero colours if some sample exceeds sign times the
\* sample just before it in some channel, and takes the monotonic branch
\* without a warning if none does.
C6_FallbackOnAnyRise ==
  (ret.op = "makeFixedSample" /\ ret.numSamples >= 1 /\ Len(func) >= 2)
  => IF ExceedsPreceding(func)
     THEN /\ ret.warned
          /\ Len(ret.out) = ret.numSamples
          /\ AllValues(ret.out, Black)
     ELSE ~ret.warned

\* C7: for every numSamples >= 1, makeFixedSample of a curve without samples
\* returns numSamples samples all holding the zero colour, and of a curve of
\* one sample returns numSamples samples all holding that sample's value.
C7_DegenerateInputs ==
  (ret.op = "makeFixedSample" /\ ret.numSamples >= 1)
  => /\ Len(func) = 0
          => Len(ret.out) = ret.numSamples /\ AllValues(ret.out, Black)
     /\ Len(func) = 1
          => /\ Len(ret.out) = ret.numSamples
             /\ AllValues(ret.out, Value(func[1]))

\* a curve of one sample that is not black was resampled to several samples
C7_Witness ==
  /\ ret.op = "makeFixedSample"
  /\ ret.numSamples = MaxN
  /\ Len(func) = 1
  /\ Value(func[1]) /= Black

----------------------------------------------------------------------------
(* Properties of DeepImage, under SpecGrid and SpecLookup                   *)

\* the curve stored at (x, y)
PixelAt(pixels, width, x, y) == pixels[PixelIndex(width, x, y)]

\* the step is a setPixel call, of either form
IsSetPixel(r) == r.op \in {"setPixel", "setPixelColor"}

\* the curve a setPixel call resamples
SourceOf(r) == IF r.op = "setPixel" THEN r.curve ELSE CurveOf(r.value)

\* width, height and sample count are kept, and so is every pixel but (x, y)
SetPixelFrame(x, y) ==
  /\ x < m_width
  /\ y < m_height
  /\ m_width' = m_width
  /\ m_height' = m_height
  /\ m_numSamples' = m_numSamples
  /\ Len(m_pixels') = Len(m_pixels)
  /\ \A x2 \in 0..(m_width - 1), y2 \in 0..(m_height - 1) :
       <<x2, y2>> /= <<x, y>>
       => PixelAt(m_pixels', m_width, x2, y2) = PixelAt(m_pixels, m_width, x2, y2)

\* the pixel (x, y) now holds makeFixedSample of the call's curve for the
\* sample count configured before the call
SetPixelStores(r) ==
  \E g \in Garbage :
    PixelAt(m_pixels', m_width, r.x, r.y)
      = FixedSampleOf[SourceOf(r), m_numSamples, g]

\* C8 as stated: a setPixel call stores makeFixedSample(curve, numSamples())
\* at (x, y), which holds exactly numSamples() samples (all of them the
\* colour, in the constant-colour form), and changes nothing else.
C8_SetPixelExactCount ==
  [][IsSetPixel(ret')
     => /\ SetPixelFrame(ret'.x, ret'.y)
        /\ SetPixelStores(ret')
        /\ Len(PixelAt(m_pixels', m_width, ret'.x, ret'.y)) = m_numSamples
        /\ ret'.op = "setPixelColor"
             => AllValues(PixelAt(m_pixels', m_width, ret'.x, ret'.y),
                          ret'.value)]_vars

\* C8 as amended: the same, with the stored curve holding exactly
\* numSamples() samples whenever numSamples() is at least 1.
C8_SetPixelStoresResampled ==
  [][IsSetPixel(ret')
     => /\ SetPixelFrame(ret'.x, ret'.y)
        /\ SetPixelStores(ret')
        /\ m_numSamples >= 1
             => Len(PixelAt(m_pixels', m_width, ret'.x, ret'.y)) = m_numSamples
        /\ ret'.op = "setPixelColor"
             => AllValues(PixelAt(m_pixels', m_width, ret'.x, ret'.y),
                          ret'.value)]_vars

\* setPixel has just stored a resampled curve of several samples at (1, 1)
\* of a 2 x 2 image whose three other pixels hold curves set before
C8_Witness ==
  /\ ret.op = "setPixel"
  /\ ret.x = 1
  /\ ret.y = 1
  /\ m_width = 2
  /\ m_height = 2
  /\ m_numSamples >= 1
  /\ Len(PixelAt(m_pixels, m_width, 1, 1)) = m_numSamples
  /\ PixelAt(m_pixels, m_width, 1, 1) /= ret.curve
  /\ \A i \in 1..3 : m_pixels[i] /= <<>>

AllEmpty(pixels) == \A i \in 1..Len(pixels) : pixels[i] = <<>>

\* C9: a new DeepImage is 2 x 2 with every pixel curve empty; right after
\* setSize(w, h) the size is (w, h) and there are w * h pixel curves, all
\* empty; and always there are width * height pixel curves.
C9_SetSizeResets ==
  /\ Len(m_pixels) = m_width * m_height
  /\ ret = NoCall
     => m_width = 2 /\ m_height = 2 /\ AllEmpty(m_pixels)
  /\ ret.op = "setSize"
     => /\ m_width = ret.width
        /\ m_height = ret.height
        /\ Len(m_pixels) = ret.width * ret.height
        /\ AllEmpty(m_pixels)

\* setSize(1, 2) was just called, after setNumSamples had changed the count
C9_Witness ==
  /\ ret.op = "setSize"
  /\ ret.width = 1
  /\ ret.height = 2
  /\ Len(m_pixels) = 2
  /\ m_numSamples /= DefaultNumSamples

\* the curve holds one colour throughout
IsConstant(curve) == Len(curve) >= 1 /\ AllValues(curve, Value(curve[1]))

\* (a + b + c + d) / 4
Mean4(a, b, c, d) == CScale(CAdd(CAdd(a, b), CAdd(c, d)), Q(1, 4))

\* Imath::clamp(v, 0, hi) of a v >= 0
ClampTo(v, hi) == IF v > hi THEN hi ELSE v

\* the four neighbours' interpolate(z) summed with the weights
\* (1 - tx)(1 - ty), tx (1 - ty), (1 - tx) ty and tx ty, for tx = rsX - xMin
\* and ty = rsY - yMin
Bilinear(pixels, width, height, rsX, rsY, z) ==
  LET xMin == ClampTo(Floor(rsX), width - 1)
      xMax == ClampTo(Ceil(rsX), width - 1)
      yMin == ClampTo(Floor(rsY), height - 1)
      yMax == ClampTo(Ceil(rsY), height - 1)
      tx == RSub(rsX, R(xMin))
      ty == RSub(rsY, R(yMin))
      ux == RSub(One, tx)
      uy == RSub(One, ty)
      at(x, y) == InterpolateColor(PixelAt(pixels, width, x, y), z)
  IN  CAdd(CAdd(CScale(at(xMin, yMin), RMul(ux, uy)),
                CScale(at(xMax, yMin), RMul(tx, uy))),
           CAdd(CScale(at(xMin, yMax), RMul(ux, ty)),
                CScale(at(xMax, yMax), RMul(tx, ty))))

\* C10: in a 2 x 2 image whose four pixels hold constant-colour curves,
\* lerp at the integer coordinates of a pixel gives that pixel's colour at
\* every depth and lerp(0.5, 0.5, depth) gives the mean of the four colours;
\* and in any image lerp at non-negative coordinates is the bilinear blend of
\* the four neighbour curves' interpolate(depth) with weights from
\* rsX - xMin and rsY - yMin.
C10_LookupExactAndMidpoint ==
  ret.op = "lerp"
  => /\ (/\ m_width = 2
         /\ m_height = 2
         /\ \A i \in 1..4 : IsConstant(m_pixels[i]))
        => /\ (ret.rsX \in {R(0), R(1)} /\ ret.rsY \in {R(0), R(1)})
                => ret.val = Value(PixelAt(m_pixels, 2, ret.rsX[1], ret.rsY[1])[1])
           /\ (ret.rsX = Q(1, 2) /\ ret.rsY = Q(1, 2))
                => ret.val = Mean4(Value(m_pixels[1][1]), Value(m_pixels[2][1]),
                                   Value(m_pixels[3][1]), Value(m_pixels[4][1]))
     /\ (RGe(ret.rsX, Zero) /\ RGe(ret.rsY, Zero))
        => ret.val = Bilinear(m_pixels, m_width, m_height,
                              ret.rsX, ret.rsY, ret.z)

\* lerp was asked at the midpoint of a 2 x 2 image whose four pixels hold
\* constant-colour curves, not all of one colour
C10_Witness ==
  /\ ret.op = "lerp"
  /\ ret.rsX = Q(1, 2)
  /\ ret.rsY = Q(1, 2)
  /\ m_width = 2
  /\ m_height = 2
  /\ \A i \in 1..4 : IsConstant(m_pixels[i])
  /\ Value(m_pixels[1][1]) /= Value(m_pixels[4][1])
  /\ Value(m_pixels[2][1]) = Value(m_pixels[3][1])

----------------------------------------------------------------------------
(* Properties of DeepImage::pixelFunction, under SpecCopy                   *)

\* C11: pixelFunction(x, y) returns a curve whose samples equal those stored
\* at (x, y) and leaves the image as it is; addSample on the returned curve
\* leaves width, height, sample count and every pixel curve unchanged; and
\* setPixel, setSize and setNumSamples leave the returned curve unchanged.
C11_PixelFunctionCopies ==
  [][/\ ret'.op = "pixelFunction"
        => /\ func' = PixelAt(m_pixels, m_width, ret'.x, ret'.y)
           /\ UNCHANGED gridVars
     /\ ret'.op = "addSample" => UNCHANGED gridVars
     /\ ret'.op \in {"setPixelColor", "setSize", "setNumSamples"}
        => func' = func]_vars

\* the sequence without its k-th element
RemoveAt(seq, k) == [i \in 1..(Len(seq) - 1) |-> IF i < k THEN seq[i] ELSE seq[i + 1]]

\* the caller has added a sample to the copy of a pixel of two samples, and
\* that pixel still holds what the copy held before
C11_Witness ==
  /\ ret.op = "addSample"
  /\ Len(func) = 3
  /\ \E i \in 1..Len(m_pixels), k \in 1..3 :
       /\ Len(m_pixels[i]) = 2
       /\ RemoveAt(func, k) = m_pixels[i]
       /\ Sample(ret.t, ret.value) = func[k]

----------------------------------------------------------------------------
(* Properties of the reading methods under threads, under SpecRead          *)

\* what the call recorded in r returns when nothing else runs
Alone(r) ==
  CASE r.op = "interpolate" -> Interpolate(m_samples, r.t)
    [] r.op = "lerp" ->
         DeepImageLerp(m_pixels, m_width, m_height, r.rsX, r.rsY, r.z, FALSE)
    [] r.op = "pixelFunction" -> PixelFunctionOp(m_pixels, m_width, r.x, r.y)

\* C12: whichever way the steps of interpolate, lerp and pixelFunction calls
\* of the threads interleave, no step changes the curve's samples or the
\* image's width, height, sample count and pixel curves, and a call that
\* returns gives what it gives when run alone on that state.
C12_ReadsArePure ==
  [][/\ UNCHANGED <<m_samples, gridVars>>
     /\ \A r \in Threads :
          (threads[r].pc = "return" /\ threads'[r] = Idle)
          => ret'.val = Alone(ret')]_vars

\* a lerp call that had read two of its pixels when another thread's
\* interpolate call returned
C12_Witness ==
  /\ ret.op = "interpolate"
  /\ m_samples /= <<>>
  /\ \E r \in Threads :
       /\ threads[r].pc = "lerpArgs"
       /\ Cardinality(DOMAIN threads[r].acc) = 2
       /\ ret.by /= r

----------------------------------------------------------------------------
(* Order of insertion in Curve<T>, under SpecCurve                          *)

\* index of the first sample whose position is strictly greater than t, one
\* past the end if there is none
InsertionPoint(samples, t) ==
  LET later == {k \in 1..Len(samples) : RGt(Position(samples[k]), t)}
  IN  IF later = {} THEN Len(samples) + 1
      ELSE CHOOSE k \in later : \A j \in later : k <= j

\* index of the last sample at position t
LastAt(samples, t) ==
  CHOOSE k \in 1..Len(samples) :
    /\ Position(samples[k]) = t
    /\ \A j \in (k + 1)..Len(samples) : Position(samples[j]) /= t

\* C13: addSample(t, v) puts (t, v) just before the first sample positioned
\* strictly after t, or at the end, and keeps the samples it found in their
\* order; so the new sample follows every sample at its own position, and
\* where samples already share t and a later sample exists, interpolate(t)
\* then gives v, the value of the last sample at t.
C13_StableInsertion ==
  [][ret'.op = "addSample"
     => LET t == ret'.t
            k == InsertionPoint(m_samples, t)
        IN  /\ Len(m_samples') = Len(m_samples) + 1
            /\ m_samples'[k] = Sample(t, ret'.value)
            /\ RemoveAt(m_samples', k) = m_samples
            /\ \A j \in 1..(k - 1) : RLe(Position(m_samples'[j]), t)
            /\ \A j \in (k + 1)..Len(m_samples') : RGt(Position(m_samples'[j]), t)
            /\ ((\E j \in 1..Len(m_samples) : Position(m_samples[j]) = t)
                /\ k <= Len(m_samples))
               => /\ Interpolate(m_samples', t) = ret'.value
                  /\ LastAt(m_samples', t) = k]_vars

\* addSample has put a second value at a position that a sample of another
\* value held, in front of a sample further on
C13_Witness ==
  /\ ret.op = "addSample"
  /\ \E k \in 2..(Len(m_samples) - 1) :
       /\ m_samples[k] = Sample(ret.t, ret.value)
       /\ Position(m_samples[k - 1]) = ret.t
       /\ Value(m_samples[k - 1]) /= ret.value
       /\ RGt(Position(m_samples[k + 1]), ret.t)

----------------------------------------------------------------------------
(* Properties of FrustumMappingIntersection::intersect, under SpecFrustum   *)

\* the ray parameter at which the ray meets the plane
Crossing(plane, origin, direction) ==
  RDiv(RSub(plane.distance, Dot(plane.normal, origin)),
       Dot(plane.normal, direction))

\* the crossings of the planes that bound the ray from below, and of those
\* that bound it from above
LowerBounds(planes, origin, direction) ==
  {Crossing(planes[i], origin, direction) :
     i \in {j \in 1..Len(planes) : RLt(Dot(planes[j].normal, direction), Zero)}}
UpperBounds(planes, origin, direction) ==
  {Crossing(planes[i], origin, direction) :
     i \in {j \in 1..Len(planes) : RGt(Dot(planes[j].normal, direction), Zero)}}

----------------------------------------------------------------------------
(* The monotonic branch of makeFixedSample, under SpecResample              *)

\* the per-sample means fall strictly from each sample to the next
StrictlyFalling(samples) ==
  \A i \in 1..(Len(samples) - 1) :
    RGt(Avg(Value(samples[i])), Avg(Value(samples[i + 1])))

\* the call took the monotonic branch with sign = +1 on a curve of falling
\* means, for two output samples or more
FallingCall ==
  /\ ret.op = "makeFixedSample"
  /\ ret.numSamples >= 2
  /\ Len(func) >= 2
  /\ ~ret.warned
  /\ Sign(Value(func[1]), Value(func[Len(func)])) = 1
  /\ StrictlyFalling(func)

\* mean(first) + (i / (N - 1)) * (mean(last) - mean(first))
UniformMean(samples, numSamples, i) ==
  LET mf == Avg(Value(samples[1]))
      ml == Avg(Value(samples[Len(samples)]))
  IN  RAdd(mf, RMul(Q(i, numSamples - 1), RSub(ml, mf)))

\* position lies between two neighbouring samples whose means bracket mean
Bracketed(samples, mean, position) ==
  \E j \in 1..(Len(samples) - 1) :
    /\ RGe(Avg(Value(samples[j])), mean)
    /\ RGe(mean, Avg(Value(samples[j + 1])))
    /\ RLe(Position(samples[j]), position)
    /\ RLe(position, Position(samples[j + 1]))

\* C15: when makeFixedSample takes the monotonic branch with sign = +1 on a
\* curve of two or more samples with strictly falling means, for N >= 2, the
\* output's sample 0 is the source's first sample, and the mean of output
\* sample i, 1 <= i <= N - 1, is mean(first) + (i / (N - 1)) * (mean(last)
\* - mean(first)), at a position between the two source samples that
\* bracket that mean.
C15_UniformInMean ==
  FallingCall
  => /\ Len(ret.out) = ret.numSamples
     /\ ret.out[1] = func[1]
     /\ \A i \in 1..(ret.numSamples - 1) :
          LET mean == UniformMean(func, ret.numSamples, i)
          IN  /\ Avg(Value(ret.out[i + 1])) = mean
              /\ Bracketed(func, mean, Position(ret.out[i + 1]))

\* three samples of falling means were resampled to three, the middle one
\* coming to lie strictly between two of the source's positions
C15_Witness ==
  /\ FallingCall
  /\ Len(func) = 3
  /\ ret.numSamples = 3
  /\ \E j \in 1..2 :
       /\ RLt(Position(func[j]), Position(ret.out[2]))
       /\ RLt(Position(ret.out[2]), Position(func[j + 1]))

----------------------------------------------------------------------------
(* The pixels DeepImage::lerp reads, under SpecClamp                        *)

\* Imath::clamp(v, 0, hi) of an integer v of either sign
ClampInt(v, hi) == IF v < 0 THEN 0 ELSE IF v > hi THEN hi ELSE v

\* C16: for width, height >= 1 and any rsX, rsY, lerp's neighbour indices
\* satisfy 0 <= xMin <= xMax <= width - 1 and 0 <= yMin <= yMax <= height - 1
\* with xMin = clamp(floor(rsX)), xMax = clamp(ceil(rsX)), and the same in y,
\* a negative coordinate clamping to index 0.
C16_IndicesClamped ==
  ret.op = "lerp"
  => /\ 0 <= ret.at.xMin
     /\ ret.at.xMin <= ret.at.xMax
     /\ ret.at.xMax <= m_width - 1
     /\ 0 <= ret.at.yMin
     /\ ret.at.yMin <= ret.at.yMax
     /\ ret.at.yMax <= m_height - 1
     /\ ret.at.xMin = ClampInt(Floor(ret.rsX), m_width - 1)
     /\ ret.at.xMax = ClampInt(Ceil(ret.rsX), m_width - 1)
     /\ ret.at.yMin = ClampInt(Floor(ret.rsY), m_height - 1)
     /\ ret.at.yMax = ClampInt(Ceil(ret.rsY), m_height - 1)

----------------------------------------------------------------------------
(* The scan pointer p of makeFixedSample, under SpecResample                *)

\* C17: when makeFixedSample takes the monotonic branch on a curve of S >= 2
\* samples, for N >= 2, p never decreases from one pass of the for loop to
\* the next, and each pass reads samples[p] and samples[p-1] with
\* 1 <= p <= S - 1.
C17_PointerInRange ==
  (/\ ret.op = "makeFixedSample"
   /\ ret.numSamples >= 2
   /\ Len(func) >= 2
   /\ ~ret.warned)
  => /\ Len(ret.ps) = ret.numSamples - 1
     /\ \A i \in 1..(Len(ret.ps) - 1) : ret.ps[i] <= ret.ps[i + 1]
     /\ \A i \in 1..Len(ret.ps) :
          ret.ps[i] >= 1 /\ ret.ps[i] <= Len(func) - 1

====
